---------------------------- MODULE Spec2Model ----------------------------
(***************************************************************************)
(* A model of ReviewsResponder.py: the Response Drafter                    *)
(* (build_examples_string, generate_ai_response), the paginated review     *)
(* browser (MyFrame, ReviewFrame) and the browser-automation run that      *)
(* submits a reply and writes it back to the spreadsheet.                  *)
(*                                                                         *)
(* Python strings are sequences of one-character strings.  A cell or a     *)
(* return value is a record [kind, s]: kind "str" with its characters s,   *)
(* kind "nan" for the float NaN pandas puts in an empty cell, kind "none"  *)
(* for Python's None.                                                      *)
(***************************************************************************)
EXTENDS Integers, Sequences, FiniteSets, TLC

\* ------------------------------------------------------------------------
\* Bounds of the model
\* ------------------------------------------------------------------------
MaxTextLen == 3
MaxRetriesBound == 3
MaxN == 4
MaxThreads == 2

\* ------------------------------------------------------------------------
\* Program constants
\* ------------------------------------------------------------------------
TRUNCATE_AT == 700
BACKOFF_BASE == 2
DEFAULT_MAX_RETRIES == 3
PAGE_SIZE == 3

PLACEHOLDER ==
    <<"T", "h", "a", "n", "k", " ", "y", "o", "u", " ", "f", "o", "r", " ",
      "y", "o", "u", "r", " ", "b", "u", "s", "i", "n", "e", "s", "s", ".">>

FALLBACK ==
    <<"R", "e", "s", "p", "o", "n", "s", "e", " ", "u", "n", "a", "v", "a",
      "i", "l", "a", "b", "l", "e", " ", "a", "t", " ", "t", "h", "i", "s",
      " ", "t", "i", "m", "e", ".">>

NAN_TEXT == <<"n", "a", "n">>

\* ------------------------------------------------------------------------
\* Values and Python string operations
\* ------------------------------------------------------------------------
Str(s) == [kind |-> "str", s |-> s]
NaN == [kind |-> "nan", s |-> <<>>]
None == [kind |-> "none", s |-> <<>>]

Min(a, b) == IF a <= b THEN a ELSE b

RECURSIVE Pow(_, _)
Pow(b, e) == IF e = 0 THEN 1 ELSE b * Pow(b, e - 1)

\* s[:n]
Slice(s, n) == SubSeq(s, 1, Min(Len(s), n))

IsSpace(c) == c \in {" ", "\n", "\t"}

\* the first position in lo..hi of s that holds no whitespace, 0 if none
RECURSIVE FirstNonSpace(_, _, _)
FirstNonSpace(s, lo, hi) ==
    IF lo > hi THEN 0
    ELSE IF lo = hi THEN (IF IsSpace(s[lo]) THEN 0 ELSE lo)
    ELSE LET mid == (lo + hi) \div 2
             l == FirstNonSpace(s, lo, mid)
         IN  IF l # 0 THEN l ELSE FirstNonSpace(s, mid + 1, hi)

\* the last position in lo..hi of s that holds no whitespace, 0 if none
RECURSIVE LastNonSpace(_, _, _)
LastNonSpace(s, lo, hi) ==
    IF lo > hi THEN 0
    ELSE IF lo = hi THEN (IF IsSpace(s[lo]) THEN 0 ELSE lo)
    ELSE LET mid == (lo + hi) \div 2
             r == LastNonSpace(s, mid + 1, hi)
         IN  IF r # 0 THEN r ELSE LastNonSpace(s, lo, mid)

\* str.strip(): from the first to the last character that is no whitespace
Strip(s) ==
    LET first == FirstNonSpace(s, 1, Len(s))
    IN  IF first = 0 THEN <<>>
        ELSE SubSeq(s, first, LastNonSpace(s, 1, Len(s)))

LowerChar(c) ==
    CASE c = "N" -> "n"
      [] c = "A" -> "a"
      [] OTHER -> c

\* str.lower()
Lower(s) == [i \in 1..Len(s) |-> LowerChar(s[i])]

\* the text an f-string puts for {v}
Format(v) ==
    CASE v.kind = "str" -> v.s
      [] v.kind = "nan" -> NAN_TEXT
      [] OTHER -> <<"N", "o", "n", "e">>

\* n copies of the character c
Rep(c, n) == [i \in 1..n |-> c]

\* ------------------------------------------------------------------------
\* generate_ai_response
\* ------------------------------------------------------------------------
\* The exception classes of the model.  TypeError is what review_text[:700]
\* raises on a float; the other two come from the completion client.
ApiExceptions == {"APIError", "APITimeoutError"}
ExceptionClasses == ApiExceptions \cup {"TypeError"}

\* What the completion service does on one attempt: raise, or return content.
Raises(e) == [raises |-> TRUE, exc |-> e, content |-> <<>>]
Returns(c) == [raises |-> FALSE, exc |-> "", content |-> c]

\* Fault variant: the handler catches the completion client's errors only.
except_APIError_only(e) == e \in ApiExceptions

\* `except Exception as e:` (line 114) catches every class of the model
except_Exception(e) == e \in ExceptionClasses

\* Fault variant: the text is put in the prompt whole.
text_not_truncated(s) ==
    IF Strip(s) = <<>> \/ Lower(s) = NAN_TEXT THEN PLACEHOLDER ELSE s

\* the text put in the prompt (lines 79-81) for a str review_text
truncated_text(s) ==
    LET t == Slice(s, TRUNCATE_AT)
    IN  IF Strip(t) = <<>> \/ Lower(t) = NAN_TEXT THEN PLACEHOLDER ELSE t

\* the user message (lines 84-88), kept by its three interpolated parts
user_content(examples_prompt, review_author, text) ==
    [examples |-> Format(examples_prompt),
     author |-> Format(review_author),
     text |-> text]

\* The body of the try (lines 77-112) on one attempt: the exception it ends
\* with ("" for none), the events it produced and the value it returns.
TryBody(review_author, review_text, examples_prompt, outcome) ==
    IF review_text.kind # "str"
    THEN [exc |-> "TypeError", events |-> <<>>, ret |-> None]
    ELSE LET req == user_content(examples_prompt, review_author,
                                 truncated_text(review_text.s))
             call == [ev |-> "call", request |-> req, secs |-> 0]
         IN  IF outcome.raises
             THEN [exc |-> outcome.exc, events |-> <<call>>, ret |-> None]
             ELSE [exc |-> "", events |-> <<call>>,
                   ret |-> Str(Strip(outcome.content))]

\* Fault variant: a constant backoff.
sleep_constant(attempt) == 1

\* time.sleep(2 ** attempt) (line 119)
sleep_secs(attempt) == Pow(BACKOFF_BASE, attempt)

Sleep(attempt) ==
    [ev |-> "sleep", request |-> user_content(None, None, <<>>),
     secs |-> sleep_secs(attempt)]

\* whether the except clause returns the fallback (line 117)
last_attempt(attempt, max_retries) == attempt = max_retries - 1

\* The for loop from `attempt` on (lines 76-119).  raised is the class of an
\* exception that leaves the function, "" when it returns.
RECURSIVE attempt_loop(_, _, _, _, _, _)
attempt_loop(review_author, review_text, examples_prompt, max_retries, outcomes, attempt) ==
    IF attempt >= max_retries
    THEN [ret |-> None, raised |-> "", events |-> <<>>]
    ELSE LET t == TryBody(review_author, review_text, examples_prompt,
                          outcomes[attempt + 1])
         IN  IF t.exc = ""
             THEN [ret |-> t.ret, raised |-> "", events |-> t.events]
             ELSE IF ~except_Exception(t.exc)
             THEN [ret |-> None, raised |-> t.exc, events |-> t.events]
             ELSE IF last_attempt(attempt, max_retries)
             THEN [ret |-> Str(FALLBACK), raised |-> "", events |-> t.events]
             ELSE LET rest == attempt_loop(review_author, review_text,
                                           examples_prompt, max_retries,
                                           outcomes, attempt + 1)
                  IN  [ret |-> rest.ret, raised |-> rest.raised,
                       events |-> t.events \o <<Sleep(attempt)>> \o rest.events]

generate_ai_response(review_author, review_text, examples_prompt, max_retries, outcomes) ==
    attempt_loop(review_author, review_text, examples_prompt, max_retries,
                 outcomes, 0)

\* ------------------------------------------------------------------------
\* The review table and build_examples_string
\* ------------------------------------------------------------------------
EXAMPLES_HEADER ==
    <<"H", "e", "r", "e", " ", "a", "r", "e", " ", "s", "o", "m", "e", " ",
      "p", "r", "e", "v", "i", "o", "u", "s", " ", "e", "x", "a", "m", "p",
      "l", "e", "s", " ", "o", "f", " ", "h", "o", "w", " ", "y", "o", "u",
      " ", "h", "a", "v", "e", " ", "r", "e", "s", "p", "o", "n", "d", "e",
      "d", ":", "\n", "\n">>

REVIEW_TAG == <<"R", "e", "v", "i", "e", "w", ":", " ">>

ANSWER_TAG == <<"\n", "A", "n", "s", "w", "e", "r", ":", " ">>

PAIR_SEP == <<"\n", "\n">>

ANSWERED == <<"A", "n", "s", "w", "e", "r", "e", "d", "!">>

\* One row of the DataFrame (the columns the program reads).
Row(author, text, answer, link) ==
    [author_title |-> author, review_text |-> text, owner_answer |-> answer,
     reviews_link |-> link]

\* The dict {} of an unbound slot: dict.get gives None for every key.
EmptyDict == Row(None, None, None, None)

\* pd.notna
notna(v) == v.kind = "str"

\* DataFrame.dropna(subset=['owner_answer']) (line 417)
RECURSIVE dropna(_)
dropna(rows) ==
    IF rows = <<>> THEN <<>>
    ELSE IF notna(Head(rows).owner_answer)
         THEN <<Head(rows)>> \o dropna(Tail(rows))
         ELSE dropna(Tail(rows))

\* Fault variant: a pair is emitted for every text and answer of length > 0.
is_example_no_strip(row) ==
    /\ notna(row.review_text)
    /\ notna(row.owner_answer)
    /\ row.review_text.s # <<>>
    /\ row.owner_answer.s # <<>>

\* the condition of line 63
is_example(row) ==
    /\ notna(row.review_text)
    /\ notna(row.owner_answer)
    /\ Strip(row.review_text.s) # <<>>
    /\ Strip(row.owner_answer.s) # <<>>

\* examples_list (lines 59-64)
RECURSIVE examples_list(_)
examples_list(rows) ==
    IF rows = <<>> THEN <<>>
    ELSE IF is_example(Head(rows))
         THEN <<REVIEW_TAG \o Head(rows).review_text.s
                 \o ANSWER_TAG \o Head(rows).owner_answer.s>>
              \o examples_list(Tail(rows))
         ELSE examples_list(Tail(rows))

\* "\n\n".join(list)
RECURSIVE join(_)
join(list) ==
    IF list = <<>> THEN <<>>
    ELSE IF Len(list) = 1 THEN Head(list)
    ELSE Head(list) \o PAIR_SEP \o join(Tail(list))

build_examples_string(answered_reviews) ==
    LET l == examples_list(answered_reviews)
    IN  IF l # <<>> THEN Str(EXAMPLES_HEADER \o join(l)) ELSE Str(<<>>)

\* ------------------------------------------------------------------------
\* ReviewFrame.update_data / update_ai_response_text, MyFrame.update_reviews
\* ------------------------------------------------------------------------
NoneIndex == 0 - 1

Frames == 0..(PAGE_SIZE - 1)

\* the test of line 216
has_answer(owner_ans) == owner_ans.kind = "str" /\ Strip(owner_ans.s) # <<>>

\* update_data(data, row_index) followed by update_ai_response_text(text)
update_data(data_dict, row_index, response_text) ==
    [data |-> data_dict,
     row_index |-> row_index,
     airesponse_text |-> response_text,
     responded_label |-> IF has_answer(data_dict.owner_answer)
                         THEN ANSWERED ELSE <<>>]

\* update_reviews(): the three slots for page `page` of table `table`
update_reviews(table, resp, page) ==
    [i \in Frames |->
        LET start_index == page * PAGE_SIZE
        IN  IF start_index + i < Len(table)
            THEN update_data(table[start_index + i + 1], start_index + i,
                             resp[start_index + i + 1].s)
            ELSE update_data(EmptyDict, NoneIndex, <<>>)]

\* ------------------------------------------------------------------------
\* State
\* ------------------------------------------------------------------------
VARIABLES
    call,           \* the arguments of one generate_ai_response call
    result,         \* what that call did: its return value and its events
    files,          \* the spreadsheet directory: file name -> table
    mtime_order,    \* the existing files, least recently modified first
    loaded_file,    \* the file MyFrame.__init__ read
    loaded_data,    \* the table as read_excel returned it (line 413)
    data,           \* MyFrame.data, the DataFrame
    examples_str,   \* MyFrame.examples_str
    responses,      \* MyFrame.responses
    invoked,        \* per row, the calls of generate_ai_response made for it
    phase,          \* "drafter", "startup", "gui" or "crashed"
    current_page,   \* MyFrame.current_page
    review_frames,  \* the three ReviewFrame panels
    threads,        \* the automation threads started by start_responding
    wrote,          \* per thread: its run has changed a label, the table or a file
    submitted       \* the row indices whose reply was submitted on the platform

vars ==
    <<call, result, files, mtime_order, loaded_file, loaded_data, data, examples_str,
      responses, invoked, phase, current_page, review_frames, threads, wrote,
      submitted>>

drafter_vars == <<call, result>>

app_vars ==
    <<files, mtime_order, loaded_file, loaded_data, data, examples_str, responses, invoked,
      phase, current_page, review_frames, threads, wrote, submitted>>

\* ------------------------------------------------------------------------
\* Inputs
\* ------------------------------------------------------------------------
Chars == {" ", "a", "n", "N"}

ShortTexts == UNION {[1..k -> Chars] : k \in 0..MaxTextLen}

LongTexts ==
    {Rep("a", TRUNCATE_AT - 1), Rep("a", TRUNCATE_AT),
     Rep("a", TRUNCATE_AT + 1), Rep(" ", TRUNCATE_AT) \o <<"a">>}

ReviewTexts == {NaN} \cup {Str(s) : s \in ShortTexts \cup LongTexts}

AuthorValues == {Str(<<"A", "l">>), NaN}

\* what the completion service may do on one attempt
OutcomeKinds ==
    {Raises("APIError"), Returns(<<" ", "o", "k", "\n">>), Returns(<<"n", "o">>)}

ThreadIds == 1..MaxThreads

\* clicked is the row index the slot showed when Respond was clicked
IdleThread ==
    [pc |-> "idle", frame |-> 0, clicked |-> NoneIndex, current_author |-> None,
     typed |-> <<>>, row |-> NoneIndex, snapshot |-> <<>>, target |-> ""]

FileNames == {"reviews.xlsx", "other.xlsx"}

\* the slots before update_reviews has bound them
UnboundFrames == [i \in Frames |-> update_data(EmptyDict, NoneIndex, <<>>)]

\* ------------------------------------------------------------------------
\* The Drafter alone: one call of generate_ai_response
\* ------------------------------------------------------------------------
NoResult == [done |-> FALSE, ret |-> None, raised |-> "", events |-> <<>>]

AppAbsent ==
    /\ files = [f \in FileNames |-> <<>>]
    /\ mtime_order = <<>>
    /\ loaded_file = ""
    /\ loaded_data = <<>>
    /\ data = <<>>
    /\ examples_str = Str(<<>>)
    /\ responses = <<>>
    /\ invoked = <<>>
    /\ phase = "drafter"
    /\ current_page = 0
    /\ review_frames = UnboundFrames
    /\ threads = [t \in ThreadIds |-> IdleThread]
    /\ wrote = [t \in ThreadIds |-> FALSE]
    /\ submitted = {}

InitDrafter ==
    /\ \E a \in AuthorValues, t \in ReviewTexts, m \in 1..MaxRetriesBound :
         \E e \in {Str(<<>>),
                   build_examples_string(<<Row(a, Str(<<"a">>), Str(<<"n">>), NaN)>>)},
            o \in [1..m -> OutcomeKinds] :
           call = [review_author |-> a, review_text |-> t,
                   examples_prompt |-> e, max_retries |-> m, outcomes |-> o]
    /\ result = NoResult
    /\ AppAbsent

CallDrafter ==
    /\ phase = "drafter"
    /\ ~result.done
    /\ LET r == generate_ai_response(call.review_author, call.review_text,
                                     call.examples_prompt, call.max_retries,
                                     call.outcomes)
       IN  result' = [done |-> TRUE, ret |-> r.ret, raised |-> r.raised,
                      events |-> r.events]
    /\ UNCHANGED <<call, app_vars>>

NextDrafter == CallDrafter

SpecDrafter == InitDrafter /\ [][NextDrafter]_vars

\* ------------------------------------------------------------------------
\* MyFrame.__init__: load, build the examples, draft a response per row
\* ------------------------------------------------------------------------
AuthorNames == <<"p", "q", "r", "s", "t", "u", "v", "w">>

\* max(list_of_files, key=os.path.getmtime) (lines 411, 532)
latest_file(order) == order[Len(order)]

\* the tables a spreadsheet may hold: n rows of distinct authors, each with
\* a review text and an owner answer from the given sets
TablesOf(n, texts, answers) ==
    {[i \in 1..n |-> Row(Str(<<AuthorNames[i]>>), tx[i], an[i], Str(<<"u">>))] :
        tx \in [1..n -> texts], an \in [1..n -> answers]}

StartupTables ==
    UNION {TablesOf(n, {NaN, Str(<<"h", "i">>)},
                    {NaN, Str(<<"t", "y">>), Str(<<" ">>)}) : n \in 0..MaxN}

\* what the completion service does during startup, per call: it fails on the
\* first k attempts and answers from then on
StartupOutcomes ==
    {[i \in 1..DEFAULT_MAX_RETRIES |->
        IF i <= k THEN Raises("APIError") ELSE Returns(<<" ", "o", "k", "\n">>)] :
        k \in {0, 1, DEFAULT_MAX_RETRIES}}

\* The state at line 418: the latest file is read and the examples are built.
Loaded(table) ==
    /\ files = [f \in FileNames |-> IF f = "reviews.xlsx" THEN table ELSE <<>>]
    /\ mtime_order = <<"reviews.xlsx">>
    /\ loaded_file = latest_file(mtime_order)
    /\ loaded_data = files[loaded_file]
    /\ data = loaded_data
    /\ examples_str = build_examples_string(dropna(data))
    /\ threads = [t \in ThreadIds |-> IdleThread]
    /\ wrote = [t \in ThreadIds |-> FALSE]
    /\ submitted = {}
    /\ call = [review_author |-> None, review_text |-> None,
               examples_prompt |-> None, max_retries |-> 0, outcomes |-> <<>>]
    /\ result = NoResult

InitStartup ==
    /\ \E table \in StartupTables : Loaded(table)
    /\ phase = "startup"
    /\ responses = <<>>
    /\ invoked = [i \in 1..Len(data) |-> 0]
    /\ current_page = 0
    /\ review_frames = UnboundFrames

\* Fault variant: rows that already have an owner answer are not drafted.
PreGenerateUnansweredOnly ==
    /\ phase = "startup"
    /\ Len(responses) < Len(data)
    /\ LET idx == Len(responses)
           row == data[idx + 1]
       IN  IF notna(row.owner_answer)
           THEN /\ responses' = Append(responses, Str(<<>>))
                /\ UNCHANGED invoked
           ELSE \E outcomes \in StartupOutcomes :
                /\ responses' = Append(responses,
                       generate_ai_response(row.author_title, row.review_text,
                           examples_str, DEFAULT_MAX_RETRIES, outcomes).ret)
                /\ invoked' = [invoked EXCEPT ![idx + 1] = @ + 1]
    /\ UNCHANGED <<drafter_vars, files, mtime_order, loaded_file, loaded_data, data,
                   examples_str, phase, current_page, review_frames, threads,
                   wrote, submitted>>

\* One iteration of the loop of lines 422-431: the next row's response is
\* generated, whatever its owner_answer.
PreGenerate ==
    /\ phase = "startup"
    /\ Len(responses) < Len(data)
    /\ LET idx == Len(responses)
           row == data[idx + 1]
       IN  \E outcomes \in StartupOutcomes :
           /\ responses' = Append(responses,
                  generate_ai_response(row.author_title, row.review_text,
                      examples_str, DEFAULT_MAX_RETRIES, outcomes).ret)
           /\ invoked' = [invoked EXCEPT ![idx + 1] = @ + 1]
    /\ UNCHANGED <<drafter_vars, files, mtime_order, loaded_file, loaded_data, data,
                   examples_str, phase, current_page, review_frames, threads,
                   wrote, submitted>>

\* Lines 433-460: the widgets are built and update_reviews() binds the slots.
\* self.data['name'][0] (line 445) raises on a table with no row.
FinishInit ==
    /\ phase = "startup"
    /\ Len(responses) = Len(data)
    /\ IF Len(data) = 0
       THEN /\ phase' = "crashed"
            /\ UNCHANGED review_frames
       ELSE /\ phase' = "gui"
            /\ review_frames' = update_reviews(data, responses, current_page)
    /\ UNCHANGED <<drafter_vars, files, mtime_order, loaded_file, loaded_data, data,
                   examples_str, responses, invoked, current_page, threads,
                   wrote, submitted>>

\* ------------------------------------------------------------------------
\* MyFrame.on_previous / on_next
\* ------------------------------------------------------------------------
on_previous ==
    /\ phase = "gui"
    /\ IF current_page > 0
       THEN /\ current_page' = current_page - 1
            /\ review_frames' = update_reviews(data, responses, current_page - 1)
       ELSE UNCHANGED <<current_page, review_frames>>
    /\ UNCHANGED <<drafter_vars, files, mtime_order, loaded_file, loaded_data, data,
                   examples_str, responses, invoked, phase, threads, wrote,
                   submitted>>

\* Fault variant: the bound test of on_next is off by one.
on_next_off_by_one ==
    /\ phase = "gui"
    /\ IF (current_page + 1) * PAGE_SIZE <= Len(data)
       THEN /\ current_page' = current_page + 1
            /\ review_frames' = update_reviews(data, responses, current_page + 1)
       ELSE UNCHANGED <<current_page, review_frames>>
    /\ UNCHANGED <<drafter_vars, files, mtime_order, loaded_file, loaded_data, data,
                   examples_str, responses, invoked, phase, threads, wrote,
                   submitted>>

on_next ==
    /\ phase = "gui"
    /\ IF (current_page + 1) * PAGE_SIZE < Len(data)
       THEN /\ current_page' = current_page + 1
            /\ review_frames' = update_reviews(data, responses, current_page + 1)
       ELSE UNCHANGED <<current_page, review_frames>>
    /\ UNCHANGED <<drafter_vars, files, mtime_order, loaded_file, loaded_data, data,
                   examples_str, responses, invoked, phase, threads, wrote,
                   submitted>>

NextStartup == PreGenerate \/ FinishInit \/ on_previous \/ on_next

SpecStartup == InitStartup /\ [][NextStartup]_vars

\* ------------------------------------------------------------------------
\* The example-builder alone: lines 416-418 on a loaded table
\* ------------------------------------------------------------------------
\* the review text of row i in the example-builder model: none, an empty
\* one, or one of its own
ExampleText(i, c) ==
    CASE c = "none" -> NaN
      [] c = "empty" -> Str(<<>>)
      [] OTHER -> Str(<<"h", AuthorNames[i]>>)

\* its owner answers: none, a whitespace-only one, or a reply
ExampleAnswers == {NaN, Str(<<" ">>), Str(<<"t", "y">>)}

\* The state at line 416: the latest file is read, no examples yet.
InitExamples ==
    /\ \E n \in 0..MaxN :
         \E tx \in [1..n -> {"none", "empty", "own"}], an \in [1..n -> ExampleAnswers] :
           data = [i \in 1..n |->
                     Row(Str(<<AuthorNames[i]>>), ExampleText(i, tx[i]), an[i],
                         Str(<<"u">>))]
    /\ files = [f \in FileNames |-> IF f = "reviews.xlsx" THEN data ELSE <<>>]
    /\ mtime_order = <<"reviews.xlsx">>
    /\ loaded_file = latest_file(mtime_order)
    /\ loaded_data = data
    /\ examples_str = None
    /\ responses = <<>>
    /\ invoked = [i \in 1..Len(data) |-> 0]
    /\ phase = "examples"
    /\ current_page = 0
    /\ review_frames = UnboundFrames
    /\ threads = [t \in ThreadIds |-> IdleThread]
    /\ wrote = [t \in ThreadIds |-> FALSE]
    /\ submitted = {}
    /\ call = [review_author |-> None, review_text |-> None,
               examples_prompt |-> None, max_retries |-> 0, outcomes |-> <<>>]
    /\ result = NoResult

\* Lines 417-418: answered_df = data.dropna(...), examples_str =
\* build_examples_string(answered_df).  result.events keeps examples_list.
BuildExamples ==
    /\ phase = "examples"
    /\ ~result.done
    /\ examples_str' = build_examples_string(dropna(data))
    /\ result' = [done |-> TRUE, ret |-> examples_str', raised |-> "",
                  events |-> examples_list(dropna(data))]
    /\ UNCHANGED <<call, files, mtime_order, loaded_file, loaded_data, data,
                   responses, invoked, phase, current_page, review_frames,
                   threads, wrote, submitted>>

NextExamples == BuildExamples

SpecExamples == InitExamples /\ [][NextExamples]_vars

\* ------------------------------------------------------------------------
\* The GUI after construction, and the automation runs
\* ------------------------------------------------------------------------
\* the tables of the GUI model: n reviews, the second loaded with a reply
GuiTables ==
    {[i \in 1..n |->
        Row(Str(<<AuthorNames[i]>>), Str(<<"h", "i">>),
            IF i = 2 THEN Str(<<"t", "y">>) ELSE NaN, Str(<<"u">>))] :
        n \in 1..MaxN}

\* the text the user may type into a response field
EditTexts == {<<"e", "d">>}

\* The state __init__ leaves when the completion service answers every call.
Init ==
    /\ \E table \in GuiTables : Loaded(table)
    /\ phase = "gui"
    /\ responses =
         [i \in 1..Len(data) |->
            generate_ai_response(data[i].author_title, data[i].review_text,
                examples_str, DEFAULT_MAX_RETRIES,
                [k \in 1..DEFAULT_MAX_RETRIES |-> Returns(<<" ", "o", "k", "\n">>)]).ret]
    /\ invoked = [i \in 1..Len(data) |-> 1]
    /\ current_page = 0
    /\ review_frames = update_reviews(data, responses, current_page)

\* the user edits the response field of a slot that shows a review
EditResponse(f) ==
    /\ phase = "gui"
    /\ review_frames[f].row_index # NoneIndex
    /\ \E text \in EditTexts :
         /\ review_frames[f].airesponse_text # text
         /\ review_frames' = [review_frames EXCEPT ![f].airesponse_text = text]
    /\ UNCHANGED <<drafter_vars, files, mtime_order, loaded_file, loaded_data, data,
                   examples_str, responses, invoked, phase, current_page,
                   threads, wrote, submitted>>

\* a thread that has not been started
Free(t) == threads[t].pc = "idle"

\* the run of thread t is over
Over(t) == threads[t].pc \in {"done", "failed"}

\* start_responding (lines 390-393): a new thread runs on_respond_in_google.
\* Thread t is the t-th one started; at most MaxThreads are started.
start_responding(f) ==
    /\ phase = "gui"
    /\ \E t \in ThreadIds :
         /\ Free(t)
         /\ \A u \in ThreadIds : Free(u) => t <= u
         /\ threads' = [threads EXCEPT ![t] =
                           [IdleThread EXCEPT !.pc = "open", !.frame = f,
                                              !.clicked = review_frames[f].row_index]]
         /\ wrote' = [wrote EXCEPT ![t] = FALSE]
    /\ UNCHANGED <<drafter_vars, files, mtime_order, loaded_file, loaded_data, data,
                   examples_str, responses, invoked, phase, current_page,
                   review_frames, submitted>>

\* the row index of the review the platform shows under the author's name
RowOf(author) ==
    CHOOSE r \in 0..(Len(data) - 1) : data[r + 1].author_title = author

Goto(t, pc) == threads' = [threads EXCEPT ![t].pc = pc]

\* the run ends without a write-back: its locals are gone
Fail(t) == threads' = [threads EXCEPT ![t] = [IdleThread EXCEPT !.pc = "failed"]]

\* Lines 233-296: the browser is opened on self.data's reviews_link and the
\* waits for the sort button and the reviews panel pass or time out.
open_browser(t) ==
    /\ threads[t].pc = "open"
    /\ LET review_link == review_frames[threads[t].frame].data.reviews_link
       IN  IF review_link.kind # "str"
           THEN Fail(t)
           ELSE \E loaded \in BOOLEAN :
                    IF loaded THEN Goto(t, "search") ELSE Fail(t)
    /\ UNCHANGED <<review_frames, data, files, mtime_order, submitted>>

\* Lines 298-341: self.data['author_title'] is read, the list is scrolled
\* for it, the exact match's Reply is clicked and the reply frame awaited.
find_author(t) ==
    /\ threads[t].pc = "search"
    /\ LET author == review_frames[threads[t].frame].data.author_title
       IN  IF author.kind = "none"
           THEN Fail(t)
           ELSE \E matched \in BOOLEAN :
                    IF matched
                    THEN threads' = [threads EXCEPT ![t].pc = "type",
                                                    ![t].current_author = author]
                    ELSE Fail(t)
    /\ UNCHANGED <<review_frames, data, files, mtime_order, submitted>>

\* Lines 343-356: the response field's text is typed into the reply box, the
\* submit button is awaited and clicked.  The platform's button becomes
\* clickable only for a reply that is not empty.
type_and_submit(t) ==
    /\ threads[t].pc = "type"
    /\ \E clickable \in BOOLEAN :
         IF clickable /\ review_frames[threads[t].frame].airesponse_text # <<>>
         THEN /\ threads' = [threads EXCEPT
                     ![t].pc = "label",
                     ![t].typed = review_frames[threads[t].frame].airesponse_text]
              /\ submitted' = submitted \cup {RowOf(threads[t].current_author)}
         ELSE /\ Fail(t)
              /\ UNCHANGED submitted
    /\ UNCHANGED <<review_frames, data, files, mtime_order>>

\* show_responded_message, lines 376-378, on the calling thread
show_label(t) ==
    /\ threads[t].pc = "label"
    /\ review_frames' =
         [review_frames EXCEPT ![threads[t].frame].responded_label = ANSWERED]
    /\ Goto(t, "setrow")
    /\ UNCHANGED <<data, files, mtime_order, submitted>>

\* show_responded_message, lines 382-386
set_owner_answer(t) ==
    /\ threads[t].pc = "setrow"
    /\ LET frame == review_frames[threads[t].frame]
       IN  IF frame.row_index = NoneIndex
           THEN /\ threads' = [threads EXCEPT ![t] = [IdleThread EXCEPT !.pc = "done"]]
                /\ UNCHANGED data
           ELSE /\ data' = [data EXCEPT ![frame.row_index + 1].owner_answer =
                                            Str(frame.airesponse_text)]
                /\ threads' = [threads EXCEPT
                       ![t] = [IdleThread EXCEPT !.pc = "save",
                                                 !.frame = threads[t].frame,
                                                 !.row = frame.row_index]]
    /\ UNCHANGED <<review_frames, files, mtime_order, submitted>>

\* save_to_excel, lines 531-534: the latest file is chosen and to_excel
\* serialises the DataFrame into a workbook in memory
save_to_excel(t) ==
    /\ threads[t].pc = "save"
    /\ threads' = [threads EXCEPT ![t].pc = "write",
                                  ![t].target = latest_file(mtime_order),
                                  ![t].snapshot = data]
    /\ UNCHANGED <<review_frames, data, files, mtime_order, submitted>>

\* the file f becomes the most recently modified
touch(order, f) == SelectSeq(order, LAMBDA g : g # f) \o <<f>>

\* save_to_excel, line 534: the workbook is written to the file, or the write
\* raises (the file is open in another program) and the run's except logs it
write_file(t) ==
    /\ threads[t].pc = "write"
    /\ \E written \in BOOLEAN :
         IF written
         THEN /\ files' = [files EXCEPT ![threads[t].target] = threads[t].snapshot]
              /\ mtime_order' = touch(mtime_order, threads[t].target)
              /\ threads' = [threads EXCEPT
                     ![t] = [IdleThread EXCEPT !.pc = "done",
                                               !.row = threads[t].row]]
         ELSE /\ Fail(t)
              /\ UNCHANGED <<files, mtime_order>>
    /\ UNCHANGED <<review_frames, data, submitted>>

\* One step of on_respond_in_google (lines 231-372) on thread t.
on_respond_in_google(t) ==
    /\ phase = "gui"
    /\ \/ open_browser(t)
       \/ find_author(t)
       \/ type_and_submit(t)
       \/ show_label(t)
       \/ set_owner_answer(t)
       \/ save_to_excel(t)
       \/ write_file(t)
    /\ wrote' = [wrote EXCEPT ![t] =
                    @ \/ <<review_frames, data, files>>' # <<review_frames, data, files>>]
    /\ UNCHANGED <<drafter_vars, loaded_file, loaded_data, examples_str, responses, invoked,
                   phase, current_page>>

\* Another program creates a second spreadsheet in the directory.
OtherFileModified ==
    /\ phase = "gui"
    /\ \A i \in 1..Len(mtime_order) : mtime_order[i] # "other.xlsx"
    /\ mtime_order' = touch(mtime_order, "other.xlsx")
    /\ UNCHANGED <<drafter_vars, files, loaded_file, loaded_data, data, examples_str,
                   responses, invoked, phase, current_page, review_frames,
                   threads, wrote, submitted>>

Next ==
    \/ on_previous
    \/ on_next
    \/ \E f \in Frames : EditResponse(f)
    \/ \E f \in Frames : start_responding(f)
    \/ \E t \in ThreadIds : on_respond_in_google(t)
    \/ OtherFileModified

Spec == Init /\ [][Next]_vars

\* ------------------------------------------------------------------------
\* Properties of the Drafter (SpecDrafter)
\* ------------------------------------------------------------------------
\* every attempt of the call fails: the text is no string (the slice raises
\* before the service is reached) or the service raises on every attempt
AllAttemptsFail ==
    \/ call.review_text.kind # "str"
    \/ \A i \in 1..call.max_retries : call.outcomes[i].raises

\* the number of attempts on which the service raises before its first success
LeadingFailures ==
    CHOOSE k \in 0..call.max_retries :
        /\ \A i \in 1..k : call.outcomes[i].raises
        /\ k = call.max_retries \/ ~call.outcomes[k + 1].raises

CallEvents == {i \in 1..Len(result.events) : result.events[i].ev = "call"}

\* C1: a call in which every attempt fails returns the fixed fallback string
\* 'Response unavailable at this time.', and no call raises to its caller.
Thm_C1_FallbackNeverRaises ==
    result.done =>
        /\ result.raised = ""
        /\ AllAttemptsFail => result.ret = Str(FALLBACK)

\* C1 witness: a call with a missing review text has returned the fallback.
Wit_C1_MissingTextFallback ==
    /\ result.done
    /\ call.review_text = NaN
    /\ call.max_retries = DEFAULT_MAX_RETRIES
    /\ result.ret = Str(FALLBACK)

\* the review text is empty, whitespace-only or missing
BlankText ==
    \/ call.review_text = NaN
    \/ call.review_text.kind = "str" /\ Strip(call.review_text.s) = <<>>

\* C2: for a review text that is empty, whitespace-only or missing, the
\* completion service is called, and every request carries the placeholder
\* 'Thank you for your business.' as the review text.
Cex_C2_PlaceholderForBlank ==
    result.done /\ BlankText =>
        /\ CallEvents # {}
        /\ \A i \in CallEvents : result.events[i].request.text = PLACEHOLDER

\* C3: when the service fails on the first k attempts and succeeds on attempt
\* k+1, the call makes exactly k+1 requests, returns the (stripped) content of
\* request k+1, and sleeps exactly once, for 2^(i-1) seconds, between failed
\* attempt i and the next; no call ends with a sleep.
Thm_C3_RetryBackoff ==
    result.done /\ call.review_text.kind = "str" =>
        LET k == LeadingFailures
            e == result.events
        IN  /\ e # <<>> => e[Len(e)].ev = "call"
            /\ k < call.max_retries =>
                 /\ Len(e) = 2 * k + 1
                 /\ \A i \in 1..(k + 1) : e[2 * i - 1].ev = "call"
                 /\ \A i \in 1..k :
                      e[2 * i].ev = "sleep" /\ e[2 * i].secs = Pow(2, i - 1)
                 /\ result.ret = Str(Strip(call.outcomes[k + 1].content))

\* C3 witness: the service failed twice and succeeded on the third attempt.
Wit_C3_FailTwiceThenSucceed ==
    /\ result.done
    /\ call.review_text.kind = "str"
    /\ call.max_retries = DEFAULT_MAX_RETRIES
    /\ LeadingFailures = 2
    /\ Len(result.events) = 5
    /\ result.ret = Str(<<"n", "o">>)

\* ------------------------------------------------------------------------
\* Properties of startup and pagination (SpecStartup)
\* ------------------------------------------------------------------------
\* ceil(N / 3) - 1
LastPage == (Len(data) + PAGE_SIZE - 1) \div PAGE_SIZE - 1

\* C9: the page index stays within [0, ceil(N/3)-1], and Previous on page 0
\* and Next on the last page change neither the page index nor the slots.
Thm_C9_PageInRange ==
    /\ [](phase = "gui" => 0 <= current_page /\ current_page <= LastPage)
    /\ [][(\/ on_previous /\ current_page = 0
           \/ on_next /\ current_page = LastPage)
          => UNCHANGED <<current_page, review_frames>>]_vars

\* C9 witness: Next has led to the last page of a table of several pages, and
\* the third slot of that page is past the table's end.
Wit_C9_OnLastPage ==
    /\ phase = "gui"
    /\ current_page = LastPage
    /\ current_page > 0
    /\ review_frames[PAGE_SIZE - 1].row_index = NoneIndex

\* C10 as claimed: once startup is over the Drafter has been invoked exactly
\* once for each review without an owner reply and never for one with a reply.
Cex_C10_OnlyUnansweredDrafted ==
    phase = "gui" =>
        \A i \in 1..Len(data) :
            invoked[i] = IF has_answer(data[i].owner_answer) THEN 0 ELSE 1

\* C10 amended: startup invokes the Drafter exactly once for every review of
\* the table, the reviews that already have an owner reply included; the GUI
\* starts only when every row has its response.
Thm_C10_EveryRowDraftedOnce ==
    /\ phase \in {"startup", "gui"} =>
         \A i \in 1..Len(data) :
            invoked[i] = IF i <= Len(responses) THEN 1 ELSE 0
    /\ phase = "gui" => Len(responses) = Len(data)

\* C10 witness: the GUI is up and a review that was loaded with an owner
\* reply has had a response drafted for it.
Wit_C10_AnsweredRowDrafted ==
    /\ phase = "gui"
    /\ \E i \in 1..Len(data) :
         /\ has_answer(data[i].owner_answer)
         /\ invoked[i] = 1
         /\ Len(responses) >= i

\* ------------------------------------------------------------------------
\* Properties of the automation runs and the write-back (Spec)
\* ------------------------------------------------------------------------
Rows == 0..(Len(data) - 1)

\* a cell that holds a non-empty string
nonempty(v) == v.kind = "str" /\ v.s # <<>>

\* no automation run is in progress
AllOver == \A t \in ThreadIds : Free(t) \/ Over(t)

\* a reply to row r has been submitted: it was loaded with one, or a run
\* clicked submit on the review of that row's author
Replied(r) == nonempty(loaded_data[r + 1].owner_answer) \/ r \in submitted

\* C4: whenever no run is in progress and none has failed, a review's
\* owner_answer, in the table in memory and in the loaded file, is non-empty
\* if and only if a reply to that review has been submitted.
Cex_C4_AnswerIffSubmitted ==
    AllOver /\ (\A t \in ThreadIds : threads[t].pc # "failed") =>
        \A r \in Rows :
            /\ nonempty(data[r + 1].owner_answer) <=> Replied(r)
            /\ nonempty(files[loaded_file][r + 1].owner_answer) <=> Replied(r)

\* C5: every write-back writes the table to the file it was loaded from.
Cex_C5_SaveToLoadedFile ==
    \A t \in ThreadIds :
        threads[t].pc = "write" => threads[t].target = loaded_file

\* a step of the GUI thread: one of its event handlers runs
GuiStep ==
    \/ on_previous
    \/ on_next
    \/ \E f \in Frames : EditResponse(f)
    \/ \E f \in Frames : start_responding(f)

\* C6: a slot's status indicator is changed only by steps of the GUI thread,
\* never by a step of an automation thread.
Cex_C6_LabelOnlyOnGuiThread ==
    [][(\E f \in Frames :
          review_frames'[f].responded_label # review_frames[f].responded_label)
       => GuiStep]_vars

\* C7: once two runs that wrote back the replies of two different reviews are
\* over, a spreadsheet file holds both replies.
Cex_C7_BothRepliesSaved ==
    AllOver =>
        \A t1, t2 \in ThreadIds :
            /\ threads[t1].pc = "done" /\ threads[t1].row # NoneIndex
            /\ threads[t2].pc = "done" /\ threads[t2].row # NoneIndex
            /\ threads[t1].row # threads[t2].row
            => \E f \in FileNames :
                 /\ Len(files[f]) = Len(data)
                 /\ nonempty(files[f][threads[t1].row + 1].owner_answer)
                 /\ nonempty(files[f][threads[t2].row + 1].owner_answer)

\* C8: a run that has failed has changed no status indicator, no cell of the
\* table in memory and no file.
Cex_C8_FailedRunChangesNothing ==
    \A t \in ThreadIds : threads[t].pc = "failed" => ~wrote[t]

\* ------------------------------------------------------------------------
\* Properties of the example-builder (SpecExamples)
\* ------------------------------------------------------------------------
\* a cell that holds a string with a character that is no whitespace
nonblank(v) == v.kind = "str" /\ \E i \in 1..Len(v.s) : ~IsSpace(v.s[i])

\* the rows (1-based) whose text and answer are both of length > 0
NonEmptyRows ==
    {i \in 1..Len(data) :
        nonempty(data[i].review_text) /\ nonempty(data[i].owner_answer)}

\* the rows (1-based) whose text and answer both hold a visible character
NonBlankRows ==
    {i \in 1..Len(data) :
        nonblank(data[i].review_text) /\ nonblank(data[i].owner_answer)}

\* the k-th smallest element of the set Q of row numbers
Kth(Q, k) == CHOOSE i \in Q : Cardinality({j \in Q : j <= i}) = k

\* the pair 'Review: <text>\nAnswer: <answer>' of row i
PairOf(i) ==
    REVIEW_TAG \o data[i].review_text.s \o ANSWER_TAG \o data[i].owner_answer.s

\* the examples string made of the pairs of the rows Q, in table order: the
\* piece of row i is its pair, after a blank line if a row of Q precedes it
RECURSIVE PairsUpTo(_, _)
PairsUpTo(Q, i) ==
    IF i = 0 THEN <<>>
    ELSE PairsUpTo(Q, i - 1) \o
         (IF i \notin Q THEN <<>>
          ELSE (IF \E j \in Q : j < i THEN PAIR_SEP ELSE <<>>) \o PairOf(i))

\* the example-builder has emitted exactly the pairs of the rows Q, in order
EmitsExactly(Q) ==
    /\ Len(result.events) = Cardinality(Q)
    /\ \A k \in 1..Cardinality(Q) : result.events[k] = PairOf(Kth(Q, k))
    /\ examples_str = IF Q = {} THEN Str(<<>>)
                      ELSE Str(EXAMPLES_HEADER \o PairsUpTo(Q, Len(data)))

\* C11 as claimed: the example-builder emits exactly one pair, in table order,
\* for each review whose review text and owner_answer are both non-empty
\* (of length > 0), nothing for any other review, and the empty string when
\* no review qualifies.
Cex_C11_PairPerNonEmptyReview ==
    result.done /\ phase = "examples" => EmitsExactly(NonEmptyRows)

\* C11 amended: the example-builder emits exactly one pair, in table order,
\* for each review whose review text and owner_answer both hold a character
\* that is no whitespace, nothing for any other review (a missing, empty or
\* whitespace-only text or answer), and the empty string when no review
\* qualifies.
Thm_C11_PairPerNonBlankReview ==
    result.done /\ phase = "examples" => EmitsExactly(NonBlankRows)

\* C11 witness: of 4 reviews only review 3 has an answer, and the examples
\* string holds exactly the pair of review 3.
Wit_C11_OnlyThirdAnswered ==
    /\ result.done /\ phase = "examples"
    /\ Len(data) = 4
    /\ \A i \in 1..4 : nonblank(data[i].review_text)
    /\ \A i \in 1..4 : notna(data[i].owner_answer) <=> i = 3
    /\ result.events = <<PairOf(3)>>
    /\ examples_str = Str(EXAMPLES_HEADER \o PairOf(3))

\* ------------------------------------------------------------------------
\* The truncation of the review text (SpecDrafter)
\* ------------------------------------------------------------------------
\* C12: the review text embedded in every completion request, on the first
\* attempt and on every retry, is at most 700 characters long: it is the
\* placeholder or the first 700 characters of the review text.
Thm_C12_RequestTextAtMost700 ==
    result.done =>
        \A i \in CallEvents :
            LET text == result.events[i].request.text
            IN  /\ Len(text) <= TRUNCATE_AT
                /\ \/ text = PLACEHOLDER
                   \/ /\ Len(text) = Min(Len(call.review_text.s), TRUNCATE_AT)
                      /\ \A j \in 1..Len(text) : text[j] = call.review_text.s[j]

\* C12 witness: a review text of 701 characters went out, cut to 700, in a
\* first request and again in two retries.
Wit_C12_LongTextRetried ==
    /\ result.done
    /\ Len(call.review_text.s) = TRUNCATE_AT + 1
    /\ Cardinality(CallEvents) = DEFAULT_MAX_RETRIES
    /\ \A i \in CallEvents : Len(result.events[i].request.text) = TRUNCATE_AT

\* ------------------------------------------------------------------------
\* A run against the GUI's rebinding and editing of its slot (Spec)
\* ------------------------------------------------------------------------
\* thread t takes the step of its run from position `from` to position `to`
Moves(t, from, to) == threads[t].pc = from /\ threads'[t].pc = to

\* C13: whatever the GUI does meanwhile, a run started by clicking Respond on
\* review r searches for the author of r, marks the slot only while it shows
\* r, writes owner_answer into row r only, and writes the text it typed into
\* the reply box.
Cex_C13_RunKeepsItsReview ==
    [][\A t \in ThreadIds :
         threads[t].clicked # NoneIndex =>
           /\ Moves(t, "search", "type") =>
                 RowOf(threads'[t].current_author) = threads[t].clicked
           /\ Moves(t, "label", "setrow") =>
                 review_frames[threads[t].frame].row_index = threads[t].clicked
           /\ Moves(t, "setrow", "save") =>
                 /\ threads'[t].row = threads[t].clicked
                 /\ data'[threads'[t].row + 1].owner_answer = Str(threads[t].typed)
           /\ threads[t].pc = "setrow" =>
                 \A r \in Rows : r # threads[t].clicked =>
                     data'[r + 1].owner_answer = data[r + 1].owner_answer]_vars

=============================================================================
